---- MODULE Spec2Model ----
(***************************************************************************)
(* Model of govc's vm.customize command (govc/vm/customize.go).            *)
(*                                                                         *)
(* customize.Run is one sequential procedure: it resolves the VM, resolves *)
(* a customization specification (a fresh one, or one fetched by NAME),    *)
(* validates the -ip count, applies the flags to the specification in      *)
(* place, submits it with vm.Customize and waits for the task.  The model  *)
(* follows Run statement by statement: pc is the position in Run, each     *)
(* action is one statement group of Run, ret is the value Run returns.     *)
(*                                                                         *)
(* Strings that Run splits, quotes or parses (-tz, -dns-server, -gateway,  *)
(* NAME) are sequences of one-character strings; strings that Run only     *)
(* copies or compares (-ip, -netmask, -mac, -domain, -prefix, -name,       *)
(* -type) are TLA+ strings.                                                *)
(***************************************************************************)
EXTENDS Integers, Sequences, FiniteSets, TLC

\* ------------------------------------------------------------------ bounds

\* Longest -ip/-netmask/-mac/-gateway/-dns-server list explored.
MaxLen == 2

\* Most adapter slots in a specification stored on the server.
MaxNics == 2

\* ------------------------------------------------- strings and conversions

QUOTE == "\""

BACKSLASH == "\\"

\* Text of a string literal of the source: one token per literal piece.
Lit(s) == <<s>>

RECURSIVE QuoteChars(_)
\* The body of strconv.Quote over printable ASCII: a double quote and a
\* backslash are escaped with a backslash, every other character is kept.
QuoteChars(s) ==
    IF s = <<>> THEN <<>>
    ELSE IF Head(s) \in {QUOTE, BACKSLASH}
         THEN <<BACKSLASH, Head(s)>> \o QuoteChars(Tail(s))
         ELSE <<Head(s)>> \o QuoteChars(Tail(s))

\* Quote with the escaping left out (%q taken for "%s" in quotes).
QuoteRaw(s) == <<QUOTE>> \o s \o <<QUOTE>>

\* fmt's %q verb: the string as a double-quoted Go string literal.
Quote(s) == <<QUOTE>> \o QuoteChars(s) \o <<QUOTE>>

\* fmt's %d verb for the small counts Run prints.
Itoa(n) == <<"0", "1", "2", "3", "4", "5", "6", "7", "8", "9">>[n + 1]

RECURSIVE SplitAcc(_, _, _)
SplitAcc(s, cur, acc) ==
    IF s = <<>> THEN Append(acc, cur)
    ELSE IF Head(s) = ","
         THEN SplitAcc(Tail(s), <<>>, Append(acc, cur))
         ELSE SplitAcc(Tail(s), Append(cur, Head(s)), acc)

\* strings.Split(s, ","): the pieces between the commas; n commas give
\* n + 1 pieces, so the empty string gives one empty piece.
Split(s) == SplitAcc(s, <<>>, <<>>)

HexDigits ==
    [c \in {"0","1","2","3","4","5","6","7","8","9"} |->
        CASE c = "0" -> 0 [] c = "1" -> 1 [] c = "2" -> 2 [] c = "3" -> 3
          [] c = "4" -> 4 [] c = "5" -> 5 [] c = "6" -> 6 [] c = "7" -> 7
          [] c = "8" -> 8 [] c = "9" -> 9]
    @@ [c \in {"a","b","c","d","e","f"} |->
        CASE c = "a" -> 10 [] c = "b" -> 11 [] c = "c" -> 12
          [] c = "d" -> 13 [] c = "e" -> 14 [] c = "f" -> 15]
    @@ [c \in {"A","B","C","D","E","F"} |->
        CASE c = "A" -> 10 [] c = "B" -> 11 [] c = "C" -> 12
          [] c = "D" -> 13 [] c = "E" -> 14 [] c = "F" -> 15]

RECURSIVE ParseUint(_, _, _)
\* The digit loop of strconv.ParseUint(s, 16, 32), which ParseInt calls: the
\* value is held as two 16-bit halves, hi * 65536 + lo.  A character that is
\* no base-16 digit is a syntax error; a value above 2^32 - 1 is a range
\* error, reported as soon as it is exceeded.
ParseUint(s, hi, lo) ==
    IF s = <<>> THEN [err |-> "", hi |-> hi, lo |-> lo]
    ELSE IF Head(s) \notin DOMAIN HexDigits
         THEN [err |-> "invalid syntax", hi |-> 0, lo |-> 0]
    ELSE LET low  == lo * 16 + HexDigits[Head(s)]
             high == hi * 16 + (low \div 65536)
         IN  IF high > 65535
             THEN [err |-> "value out of range", hi |-> 0, lo |-> 0]
             ELSE ParseUint(Tail(s), high, low % 65536)

\* ParseInt with the signed range test left out: any 32-bit magnitude is
\* accepted and wraps into the signed range.
ParseIntUnsigned(s) ==
    LET isNeg  == s # <<>> /\ Head(s) = "-"
        signed == s # <<>> /\ Head(s) \in {"+", "-"}
        digits == IF signed THEN Tail(s) ELSE s
        un     == ParseUint(digits, 0, 0)
        wrapped == IF un.hi >= 32768 THEN (un.hi - 65536) * 65536 + un.lo
                   ELSE un.hi * 65536 + un.lo
    IN  IF digits = <<>> THEN [err |-> "invalid syntax", val |-> 0]
        ELSE IF un.err # "" THEN [err |-> un.err, val |-> 0]
        ELSE [err |-> "",
              val |-> IF isNeg /\ wrapped # (-2147483647) - 1
                      THEN 0 - wrapped ELSE wrapped]

\* strconv.ParseInt(s, 16, 32): an optional sign, then one or more base-16
\* digits (no 0x prefix, no underscores: those are base 0 only); the
\* magnitude must be below 2^31, or equal to it after a minus sign.  err is
\* "" on success, and val is then the signed 32-bit value.
ParseInt(s) ==
    LET isNeg  == s # <<>> /\ Head(s) = "-"
        signed == s # <<>> /\ Head(s) \in {"+", "-"}
        digits == IF signed THEN Tail(s) ELSE s
        un     == ParseUint(digits, 0, 0)
    IN  IF digits = <<>> THEN [err |-> "invalid syntax", val |-> 0]
        ELSE IF un.err # "" THEN [err |-> un.err, val |-> 0]
        ELSE IF ~isNeg /\ un.hi >= 32768
             THEN [err |-> "value out of range", val |-> 0]
        ELSE IF isNeg /\ (un.hi > 32768 \/ (un.hi = 32768 /\ un.lo > 0))
             THEN [err |-> "value out of range", val |-> 0]
        ELSE IF isNeg /\ un.hi = 32768
             THEN [err |-> "", val |-> (-2147483647) - 1]
        ELSE [err |-> "",
              val |-> IF isNeg THEN 0 - (un.hi * 65536 + un.lo)
                      ELSE un.hi * 65536 + un.lo]

\* The -auto-login count is a Go int (64 bits); it is held as its two 32-bit
\* words: the value is hi * 2^32 + (lo mod 2^32), lo being the low word read
\* as a signed 32-bit integer.
AlcIsZero(a) == a.hi = 0 /\ a.lo = 0

\* int32(cmd.alc): the conversion keeps the low 32 bits.
Int32OfAlc(a) == a.lo

\* ------------------------------------------------------------ data model

\* The host-name generators Run handles: new(CustomizationVirtualMachineName),
\* &cmd.prefix (CustomizationPrefixName) and &cmd.host (CustomizationFixedName).
NameGen(type, value) == [type |-> type, value |-> value]

NoNameGen == NameGen("nil", "")

\* spec.Identity: its dynamic type (variant) and the fields Run writes.  The
\* sysprep fields are Identification.JoinDomain, UserData.ComputerName and
\* GuiUnattended.{AutoLogon, AutoLogonCount, TimeZone}; the Linux-prep fields
\* are Domain, HostName and TimeZone.  A variant holds its own fields only.
Identity(variant) ==
    [variant |-> variant,
     JoinDomain |-> "", ComputerName |-> NoNameGen,
     AutoLogon |-> FALSE, AutoLogonCount |-> 0, TimeZoneIdx |-> 0,
     Domain |-> "", HostName |-> NoNameGen, TimeZone |-> <<>>]

\* &types.CustomizationLinuxPrep{HostName: new(CustomizationVirtualMachineName)}
NewLinuxPrep ==
    [Identity("linprep") EXCEPT !.HostName = NameGen("VirtualMachineName", "")]

\* &types.CustomizationSysprep{UserData: {ComputerName: new(...)}}
NewSysprep ==
    [Identity("sysprep") EXCEPT !.ComputerName = NameGen("VirtualMachineName", "")]

\* The identity the -type switch constructs; the nil identity stands for the
\* default branch, which constructs none.
NewIdentity(kind) ==
    CASE kind = "Linux"   -> NewLinuxPrep
      [] kind = "Windows" -> NewSysprep
      [] OTHER            -> Identity("nil")

\* The -type switch without its default branch.
KnownKindAny(kind) == TRUE

\* The -type values the switch accepts.
KnownKind(kind) == kind \in {"Linux", "Windows"}

\* nic.Adapter.Ip: nil, a CustomizationDhcpIpGenerator, a CustomizationFixedIp
\* or a generator of another type stored on the server.
IpGen(type, addr) == [type |-> type, IpAddress |-> addr]

\* The zero CustomizationAdapterMapping that make() fills the slice with.
ZeroNic ==
    [MacAddress |-> "", Ip |-> IpGen("nil", ""), SubnetMask |-> "",
     Gateway |-> <<>>, DnsServerList |-> <<>>]

\* make([]types.CustomizationAdapterMapping, n)
MakeNics(n) == [k \in 1..n |-> ZeroNic]

\* Run's spec variable before a specification is resolved.
NoSpec ==
    [Identity |-> Identity("nil"), GlobalDns |-> <<>>, NicSettingMap |-> <<>>]

\* &types.CustomizationSpec{NicSettingMap: make(..., len(cmd.ip))} with the
\* identity of the -type switch.
FreshSpec(kind, nip) ==
    [Identity |-> NewIdentity(kind), GlobalDns |-> <<>>,
     NicSettingMap |-> MakeNics(nip)]

\* An adapter mapping of a specification stored on the server.
StoredNic ==
    [MacAddress |-> "00:50:56:00:00:01", Ip |-> IpGen("unknown", ""),
     SubnetMask |-> "255.0.0.0", Gateway |-> << <<"9">> >>,
     DnsServerList |-> << <<"7">> >>]

\* The identity of a stored specification: any of the identity types of the
\* API (sysprep, Linux-prep, sysprep-text) or none.
StoredIdentity(variant) ==
    CASE variant = "sysprep" ->
           [Identity("sysprep") EXCEPT
              !.JoinDomain = "corp", !.ComputerName = NameGen("FixedName", "stored"),
              !.TimeZoneIdx = 4]
      [] variant = "linprep" ->
           [Identity("linprep") EXCEPT
              !.Domain = "corp", !.HostName = NameGen("FixedName", "stored"),
              !.TimeZone = <<"G", "M", "T">>]
      [] OTHER -> Identity(variant)

Variants == {"sysprep", "linprep", "sysprepText", "nil"}

\* item.Spec of the specifications GetCustomizationSpec may return.
StoredSpec(variant, n) ==
    [Identity |-> StoredIdentity(variant), GlobalDns |-> << <<"1">> >>,
     NicSettingMap |-> [k \in 1..n |-> StoredNic]]

StoredSpecs == {StoredSpec(v, n) : v \in Variants, n \in 0..MaxNics}

\* ------------------------------------------------------------------ inputs

\* NAME, f.Arg(0): absent, a plain name, a name holding a double quote.
Names == {<<>>, <<"t">>, <<"a", QUOTE>>}

Kinds == {"Linux", "Windows", "windows"}

\* -auto-login: 0 (the default), 3, -1, 2^32 and 2^32 + 3.
Alcs ==
    {[hi |-> 0, lo |-> 0], [hi |-> 0, lo |-> 3], [hi |-> -1, lo |-> -1],
     [hi |-> 1, lo |-> 0], [hi |-> 1, lo |-> 3]}

\* -tz: unset, a hex index, the least 32-bit value, 2^31, a hex index with
\* a 0x prefix, a zone name.
Tzs ==
    {<<>>, <<"1", "f">>, <<"-", "8", "0", "0", "0", "0", "0", "0", "0">>,
     <<"8", "0", "0", "0", "0", "0", "0", "0">>, <<"0", "x", "1", "f">>,
     <<"U", "T", "C">>}

\* The first n entries of a list.
Prefix(pool, n) == [k \in 1..n |-> pool[((k - 1) % Len(pool)) + 1]]

IpValues == {"dhcp", "10.0.0.5"}

\* Every -ip list of at most MaxLen entries.
IpLists == UNION {[1..n -> IpValues] : n \in 0..MaxLen}

\* -ip lists of each length, for the runs that vary the scalar flags.
IpByLength == {Prefix(<<"dhcp", "10.0.0.5">>, n) : n \in 0..MaxLen}

NetmaskLists == {Prefix(<<"255.255.255.0", "255.255.0.0">>, n) : n \in 0..MaxLen}

MacLists == {Prefix(<<"00:50:56:be:dd:f8", "00:50:56:be:60:cf">>, n) : n \in 0..MaxLen}

\* -gateway values: two gateways in one value, then a single one.
GatewayLists == {Prefix(<< <<"2", ",", "3">>, <<"4">> >>, n) : n \in 0..MaxLen}

\* -dns-server values: two servers in one value, then a single one.
DnsLists == {Prefix(<< <<"8", ",", "4">>, <<"5">> >>, n) : n \in 0..MaxLen}

\* The customize struct after flag parsing (Register's defaults included).
Cmd(alc, prefix, tz, domain, host, mac, ip, gateway, netmask, dnsserver, kind) ==
    [alc |-> alc, prefix |-> prefix, tz |-> tz, domain |-> domain, host |-> host,
     mac |-> mac, ip |-> ip, gateway |-> gateway, netmask |-> netmask,
     dnsserver |-> dnsserver, kind |-> kind]

\* Command lines that vary the scalar flags and the -ip count.
ScalarCmds ==
    {Cmd(a, p, t, d, h, <<>>, ip, <<>>, <<>>, <<>>, k) :
        a \in Alcs, p \in {"", "web"}, t \in Tzs, d \in {"", "example.com"},
        h \in {"", "host1"}, ip \in IpByLength, k \in Kinds}

\* Command lines that vary the per-adapter lists, the scalar flags unset.
ListCmds ==
    {Cmd([hi |-> 0, lo |-> 0], "", <<>>, "", "", m, ip, g, n, dns, k) :
        m \in MacLists, ip \in IpLists, g \in GatewayLists, n \in NetmaskLists,
        dns \in DnsLists, k \in {"Linux", "Windows"}}

\* ------------------------------------------------------------------- state

VARIABLES
    cmd,        \* the parsed flags (the customize struct)
    name,       \* f.Arg(0)
    pc,         \* position in Run
    spec,       \* *spec, the specification being built
    orig,       \* the specification as resolved, before any flag is applied
    i,          \* index of the per-adapter loop
    nicWrites,  \* adapter mappings the loop has written
    calls,      \* calls made to the server, by operation
    env,        \* what the server answered to each call ("" before the call)
    submitted,  \* the specification passed to vm.Customize
    ret         \* what Run returned ("running" until it returns)

vars == <<cmd, name, pc, spec, orig, i, nicWrites, calls, env, submitted, ret>>

Err(kind, text) == [kind |-> kind, text |-> text]

Running == Err("running", <<>>)

Init ==
    /\ \/ cmd \in ScalarCmds /\ name \in Names
       \/ cmd \in ListCmds /\ name \in {<<>>, <<"t">>}
    /\ pc = "vm"
    /\ spec = NoSpec
    /\ orig = NoSpec
    /\ i = 0
    /\ nicWrites = 0
    /\ calls = [exists |-> 0, fetch |-> 0, customize |-> 0, wait |-> 0]
    /\ env = [vm |-> "", exists |-> "", fetch |-> "", customize |-> "", wait |-> ""]
    /\ submitted = NoSpec
    /\ ret = Running

\* ----------------------------------------------------------------- Run

\* The statement order with vm.Customize ahead of the per-adapter loop.
AfterSkipsLoop(step) ==
    CASE step = "vm"        -> "resolve"
      [] step = "resolve"   -> "validate"
      [] step = "exists"    -> "fetch"
      [] step = "fetch"     -> "validate"
      [] step = "validate"  -> "domain"
      [] step = "domain"    -> "dns"
      [] step = "dns"       -> "prefix"
      [] step = "prefix"    -> "host"
      [] step = "host"      -> "alc"
      [] step = "alc"       -> "tz"
      [] step = "tz"        -> "customize"
      [] step = "loop"      -> "customize"
      [] step = "customize" -> "wait"
      [] step = "wait"      -> "done"

\* The statement that follows each statement group of Run when it does not
\* return.
After(step) ==
    CASE step = "vm"        -> "resolve"
      [] step = "resolve"   -> "validate"
      [] step = "exists"    -> "fetch"
      [] step = "fetch"     -> "validate"
      [] step = "validate"  -> "domain"
      [] step = "domain"    -> "dns"
      [] step = "dns"       -> "prefix"
      [] step = "prefix"    -> "host"
      [] step = "host"      -> "alc"
      [] step = "alc"       -> "tz"
      [] step = "tz"        -> "loop"
      [] step = "loop"      -> "customize"
      [] step = "customize" -> "wait"
      [] step = "wait"      -> "done"

\* return e
Return(e) == pc' = "done" /\ ret' = e

\* Fall through to the next statement group.
Goto(step) == pc' = After(step) /\ ret' = ret

\* A nil-pointer dereference or an index out of range: the Go runtime panics
\* and the command dies without returning.
Panic == Return(Err("panic", <<>>))

\* sysprep, isWindows := spec.Identity.(*types.CustomizationSysprep)
IsWindows == spec.Identity.variant = "sysprep"

\* linprep, _ := spec.Identity.(*types.CustomizationLinuxPrep): nil unless the
\* identity is a Linux-prep identity.
LinprepIsNil == spec.Identity.variant # "linprep"

\* vm, err := cmd.VirtualMachineFlag.VirtualMachine(), and the nil check.
VirtualMachine ==
    /\ pc = "vm"
    /\ \E outcome \in {"vm", "nil", "err"} :
          /\ env' = [env EXCEPT !.vm = outcome]
          /\ CASE outcome = "err" -> Return(Err("vmErr", <<>>))
               [] outcome = "nil" -> Return(Err("ErrHelp", <<>>))
               [] OTHER           -> Goto("vm")
    /\ UNCHANGED <<cmd, name, spec, orig, i, nicWrites, calls, submitted>>

\* name == "": construct the specification, its identity chosen by -type.
NewSpec ==
    /\ pc = "resolve"
    /\ name = <<>>
    /\ IF KnownKind(cmd.kind)
       THEN /\ spec' = FreshSpec(cmd.kind, Len(cmd.ip))
            /\ orig' = spec'
            /\ Goto("resolve")
       ELSE /\ Return(Err("ErrHelp", <<>>))
            /\ UNCHANGED <<spec, orig>>
    /\ UNCHANGED <<cmd, name, i, nicWrites, calls, env, submitted>>

\* fmt.Errorf("specification %q does not exist", name)
NotExistError(n) ==
    Err("notExist", Lit("specification ") \o Quote(n) \o Lit(" does not exist"))

\* name != "": m.DoesCustomizationSpecExist(ctx, name).
DoesCustomizationSpecExist ==
    /\ pc = "resolve"
    /\ name # <<>>
    /\ calls' = [calls EXCEPT !.exists = @ + 1]
    /\ \E outcome \in {"err", "absent", "exists"} :
          /\ env' = [env EXCEPT !.exists = outcome]
          /\ CASE outcome = "err"    -> Return(Err("existsErr", <<>>))
               [] outcome = "absent" -> Return(NotExistError(name))
               [] OTHER              -> pc' = After("exists") /\ ret' = ret
    /\ UNCHANGED <<cmd, name, spec, orig, i, nicWrites, submitted>>

\* item, err := m.GetCustomizationSpec(ctx, name); spec = &item.Spec
GetCustomizationSpec ==
    /\ pc = "fetch"
    /\ calls' = [calls EXCEPT !.fetch = @ + 1]
    /\ \/ /\ env' = [env EXCEPT !.fetch = "err"]
          /\ Return(Err("fetchErr", <<>>))
          /\ UNCHANGED <<spec, orig>>
       \/ \E item \in StoredSpecs :
             /\ env' = [env EXCEPT !.fetch = "item"]
             /\ spec' = item
             /\ orig' = item
             /\ Goto("fetch")
    /\ UNCHANGED <<cmd, name, i, nicWrites, submitted>>

\* The count validation off by one.
TooManyIpOffByOne(nip, nslots) == nip > nslots + 1

\* len(cmd.ip) > len(spec.NicSettingMap)
TooManyIp(nip, nslots) == nip > nslots

\* fmt.Errorf("%d -ip specified, spec %q has %d", ...)
TooManyIpError(nip, n, nslots) ==
    Err("tooManyIp",
        <<Itoa(nip)>> \o Lit(" -ip specified, spec ") \o Quote(n)
          \o Lit(" has ") \o <<Itoa(nslots)>>)

Validate ==
    /\ pc = "validate"
    /\ IF TooManyIp(Len(cmd.ip), Len(spec.NicSettingMap))
       THEN Return(TooManyIpError(Len(cmd.ip), name, Len(spec.NicSettingMap)))
       ELSE Goto("validate")
    /\ UNCHANGED <<cmd, name, spec, orig, i, nicWrites, calls, env, submitted>>

\* if cmd.domain != "" { ... }
Domain ==
    /\ pc = "domain"
    /\ IF cmd.domain = ""
       THEN Goto("domain") /\ UNCHANGED spec
       ELSE IF IsWindows
       THEN /\ spec' = [spec EXCEPT !.Identity.JoinDomain = cmd.domain]
            /\ Goto("domain")
       ELSE IF LinprepIsNil
       THEN Panic /\ UNCHANGED spec
       ELSE /\ spec' = [spec EXCEPT !.Identity.Domain = cmd.domain]
            /\ Goto("domain")
    /\ UNCHANGED <<cmd, name, orig, i, nicWrites, calls, env, submitted>>

RECURSIVE AppendSplit(_, _)
\* for _, s := range cmd.dnsserver { list = append(list, Split(s, ",")...) }
AppendSplit(list, values) ==
    IF values = <<>> THEN list
    ELSE AppendSplit(list \o Split(Head(values)), Tail(values))

\* The global DNS list taking the values whatever the identity.
GlobalDnsAppliesAlways == Len(cmd.dnsserver) # 0

\* Whether the global DNS list takes the -dns-server values.
GlobalDnsApplies == Len(cmd.dnsserver) # 0 /\ ~IsWindows

\* if len(cmd.dnsserver) != 0 { if !isWindows { ... } }
Dns ==
    /\ pc = "dns"
    /\ spec' = IF GlobalDnsApplies
               THEN [spec EXCEPT !.GlobalDns = AppendSplit(@, cmd.dnsserver)]
               ELSE spec
    /\ Goto("dns")
    /\ UNCHANGED <<cmd, name, orig, i, nicWrites, calls, env, submitted>>

\* The specification with the host-name generator gen stored in the
\* identity: ComputerName for sysprep, HostName for Linux-prep.
WithHostName(sp, gen) ==
    IF sp.Identity.variant = "sysprep"
    THEN [sp EXCEPT !.Identity.ComputerName = gen]
    ELSE [sp EXCEPT !.Identity.HostName = gen]

\* if cmd.prefix.Base != "" { ... = &cmd.prefix }
PrefixName ==
    /\ pc = "prefix"
    /\ IF cmd.prefix = ""
       THEN Goto("prefix") /\ UNCHANGED spec
       ELSE IF ~IsWindows /\ LinprepIsNil
       THEN Panic /\ UNCHANGED spec
       ELSE /\ spec' = WithHostName(spec, NameGen("PrefixName", cmd.prefix))
            /\ Goto("prefix")
    /\ UNCHANGED <<cmd, name, orig, i, nicWrites, calls, env, submitted>>

\* -name applied only when -prefix is not (an else-if of the two blocks).
HostNameUnlessPrefix ==
    /\ pc = "host"
    /\ IF cmd.host = "" \/ cmd.prefix # ""
       THEN Goto("host") /\ UNCHANGED spec
       ELSE IF ~IsWindows /\ LinprepIsNil
       THEN Panic /\ UNCHANGED spec
       ELSE /\ spec' = WithHostName(spec, NameGen("FixedName", cmd.host))
            /\ Goto("host")
    /\ UNCHANGED <<cmd, name, orig, i, nicWrites, calls, env, submitted>>

\* if cmd.host.Name != "" { ... = &cmd.host }
HostName ==
    /\ pc = "host"
    /\ IF cmd.host = ""
       THEN Goto("host") /\ UNCHANGED spec
       ELSE IF ~IsWindows /\ LinprepIsNil
       THEN Panic /\ UNCHANGED spec
       ELSE /\ spec' = WithHostName(spec, NameGen("FixedName", cmd.host))
            /\ Goto("host")
    /\ UNCHANGED <<cmd, name, orig, i, nicWrites, calls, env, submitted>>

\* fmt.Errorf("option '-auto-login' is Windows only")
WindowsOnlyError == Err("windowsOnly", Lit("option '-auto-login' is Windows only"))

\* The auto-login block without its Windows-only check: the flag is
\* ignored against other identities.
AutoLoginUnchecked ==
    /\ pc = "alc"
    /\ IF AlcIsZero(cmd.alc) \/ ~IsWindows
       THEN Goto("alc") /\ UNCHANGED spec
       ELSE /\ spec' = [spec EXCEPT !.Identity.AutoLogon = TRUE,
                                    !.Identity.AutoLogonCount = Int32OfAlc(cmd.alc)]
            /\ Goto("alc")
    /\ UNCHANGED <<cmd, name, orig, i, nicWrites, calls, env, submitted>>

\* if cmd.alc != 0 { ... }
AutoLogin ==
    /\ pc = "alc"
    /\ IF AlcIsZero(cmd.alc)
       THEN Goto("alc") /\ UNCHANGED spec
       ELSE IF ~IsWindows
       THEN Return(WindowsOnlyError) /\ UNCHANGED spec
       ELSE /\ spec' = [spec EXCEPT !.Identity.AutoLogon = TRUE,
                                    !.Identity.AutoLogonCount = Int32OfAlc(cmd.alc)]
            /\ Goto("alc")
    /\ UNCHANGED <<cmd, name, orig, i, nicWrites, calls, env, submitted>>

\* fmt.Errorf("converting -tz=%q: %s", cmd.tz, err), err a *strconv.NumError
TzError(tz, err) ==
    Err("tzParse",
        Lit("converting -tz=") \o Quote(tz) \o Lit(": strconv.ParseInt: parsing ")
          \o Quote(tz) \o Lit(": ") \o Lit(err))

\* if cmd.tz != "" { ... }
TimeZone ==
    /\ pc = "tz"
    /\ IF cmd.tz = <<>>
       THEN Goto("tz") /\ UNCHANGED spec
       ELSE IF IsWindows
       THEN LET tz == ParseInt(cmd.tz) IN
            IF tz.err # ""
            THEN Return(TzError(cmd.tz, tz.err)) /\ UNCHANGED spec
            ELSE /\ spec' = [spec EXCEPT !.Identity.TimeZoneIdx = tz.val]
                 /\ Goto("tz")
       ELSE IF LinprepIsNil
       THEN Panic /\ UNCHANGED spec
       ELSE /\ spec' = [spec EXCEPT !.Identity.TimeZone = cmd.tz]
            /\ Goto("tz")
    /\ UNCHANGED <<cmd, name, orig, i, nicWrites, calls, env, submitted>>

\* switch ip { case "dhcp": new(CustomizationDhcpIpGenerator)
\*             default: &CustomizationFixedIp{IpAddress: ip} }
IpGenerator(ip) ==
    IF ip = "dhcp" THEN IpGen("dhcp", "") ELSE IpGen("fixed", ip)

\* The index test off by one.
HasEntryOffByOne(k, list) == k + 1 < Len(list)

\* Whether a flag list has an entry for the adapter at (0-based) index k.
HasEntry(k, list) == k < Len(list)

\* The body of the per-adapter loop for (0-based) index k: the adapter
\* mapping nic after the flags' entries at k are stored in it.
SetNic(nic, k, c, isWindows) ==
    [MacAddress    |-> IF HasEntry(k, c.mac) THEN c.mac[k + 1] ELSE nic.MacAddress,
     Ip            |-> IpGenerator(c.ip[k + 1]),
     SubnetMask    |-> IF HasEntry(k, c.netmask) THEN c.netmask[k + 1]
                       ELSE nic.SubnetMask,
     Gateway       |-> IF HasEntry(k, c.gateway) THEN Split(c.gateway[k + 1])
                       ELSE nic.Gateway,
     DnsServerList |-> IF isWindows /\ HasEntry(k, c.dnsserver)
                       THEN Split(c.dnsserver[k + 1])
                       ELSE nic.DnsServerList]

\* for i, ip := range cmd.ip { nic := &spec.NicSettingMap[i]; ... }
NicLoop ==
    /\ pc = "loop"
    /\ IF i >= Len(cmd.ip)
       THEN Goto("loop") /\ UNCHANGED <<spec, i, nicWrites>>
       ELSE IF i >= Len(spec.NicSettingMap)
       THEN Panic /\ UNCHANGED <<spec, i, nicWrites>>
       ELSE /\ spec' = [spec EXCEPT !.NicSettingMap[i + 1] =
                                        SetNic(@, i, cmd, IsWindows)]
            /\ i' = i + 1
            /\ nicWrites' = nicWrites + 1
            /\ UNCHANGED <<pc, ret>>
    /\ UNCHANGED <<cmd, name, orig, calls, env, submitted>>

\* task, err := vm.Customize(ctx, *spec)
Customize ==
    /\ pc = "customize"
    /\ calls' = [calls EXCEPT !.customize = @ + 1]
    /\ submitted' = spec
    /\ \/ env' = [env EXCEPT !.customize = "err"] /\ Return(Err("customizeErr", <<>>))
       \/ env' = [env EXCEPT !.customize = "task"] /\ Goto("customize")
    /\ UNCHANGED <<cmd, name, spec, orig, i, nicWrites>>

\* return task.Wait(ctx)
Wait ==
    /\ pc = "wait"
    /\ calls' = [calls EXCEPT !.wait = @ + 1]
    /\ \/ env' = [env EXCEPT !.wait = "err"] /\ Return(Err("waitErr", <<>>))
       \/ env' = [env EXCEPT !.wait = "done"] /\ Return(Err("nil", <<>>))
    /\ UNCHANGED <<cmd, name, spec, orig, i, nicWrites, submitted>>

Next ==
    \/ VirtualMachine
    \/ NewSpec
    \/ DoesCustomizationSpecExist
    \/ GetCustomizationSpec
    \/ Validate
    \/ Domain
    \/ Dns
    \/ PrefixName
    \/ HostName
    \/ AutoLogin
    \/ TimeZone
    \/ NicLoop
    \/ Customize
    \/ Wait

Spec == Init /\ [][Next]_vars

\* ------------------------------------------------------ claims: vocabulary

\* Run has returned (or died).
Done == pc = "done"

\* A specification was resolved: constructed, or fetched from the server.
Resolved ==
    \/ env.fetch = "item"
    \/ env.vm = "vm" /\ name = <<>> /\ cmd.kind \in {"Linux", "Windows"}
          /\ pc # "resolve"

\* vm.Customize was invoked.
Submitted == calls.customize >= 1

\* Adapter slots of the resolved specification.
Slots == Len(orig.NicSettingMap)

Min(a, b) == IF a <= b THEN a ELSE b

\* The errors Run raises before the submit step.
PreSubmitErrors ==
    {"vmErr", "ErrHelp", "existsErr", "notExist", "fetchErr", "tooManyIp",
     "windowsOnly", "tzParse"}

\* text holds sub as a contiguous run of characters.
Contains(text, sub) ==
    \E k \in 0..(Len(text) - Len(sub)) :
        \A j \in 1..Len(sub) : text[k + j] = sub[j]

RECURSIVE Join(_)
\* The pieces joined by commas.
Join(pieces) ==
    IF Len(pieces) = 0 THEN <<>>
    ELSE IF Len(pieces) = 1 THEN pieces[1]
    ELSE pieces[1] \o <<",">> \o Join(Tail(pieces))

\* pieces is the comma-split of s: joining them with commas gives s back and
\* no piece holds a comma.
IsCommaSplit(pieces, s) ==
    /\ Len(pieces) >= 1
    /\ Join(pieces) = s
    /\ \A k \in 1..Len(pieces) : \A j \in 1..Len(pieces[k]) : pieces[k][j] # ","

\* The variant of the resolved specification's identity.
Variant == orig.Identity.variant

\* The host-name field of an identity: ComputerName for sysprep, HostName
\* for Linux-prep.
HostNameField(id) ==
    IF id.variant = "sysprep" THEN id.ComputerName ELSE id.HostName

\* The digits of a -tz value, an optional sign removed.
TzDigits(s) == IF s # <<>> /\ Head(s) \in {"+", "-"} THEN Tail(s) ELSE s

RECURSIVE Significant(_)
\* Digits without their leading zeros.
Significant(d) ==
    IF d # <<>> /\ Head(d) = "0" THEN Significant(Tail(d)) ELSE d

HexChars ==
    {"0", "1", "2", "3", "4", "5", "6", "7", "8", "9",
     "a", "b", "c", "d", "e", "f", "A", "B", "C", "D", "E", "F"}

\* s is a base-16 integer that fits a signed 32-bit integer: an optional
\* sign and one or more hex digits, at most 8 of them significant, the
\* magnitude at most 7FFFFFFF, or 80000000 after a minus sign.
IsHexInt32(s) ==
    LET d   == TzDigits(s)
        sig == Significant(d)
    IN  /\ Len(d) >= 1
        /\ \A k \in 1..Len(d) : d[k] \in HexChars
        /\ \/ Len(sig) <= 7
           \/ Len(sig) = 8 /\ sig[1] \in {"1", "2", "3", "4", "5", "6", "7"}
           \/ Head(s) = "-" /\ sig = <<"8", "0", "0", "0", "0", "0", "0", "0">>

RECURSIVE Pow16(_)
Pow16(n) == IF n = 0 THEN 1 ELSE 16 * Pow16(n - 1)

RECURSIVE PositionalSum(_, _)
\* Sum over the digits of sig from position k on, each weighted by its place.
PositionalSum(sig, k) ==
    IF k > Len(sig) THEN 0
    ELSE HexDigits[sig[k]] * Pow16(Len(sig) - k) + PositionalSum(sig, k + 1)

\* The value of a -tz value for which IsHexInt32 holds.
HexValue(s) ==
    LET sig == Significant(TzDigits(s)) IN
    IF Head(s) = "-"
    THEN IF sig = <<"8", "0", "0", "0", "0", "0", "0", "0">>
         THEN (-2147483647) - 1
         ELSE 0 - PositionalSum(sig, 1)
    ELSE PositionalSum(sig, 1)

\* Run is past the auto-login statement without having returned from it.
PastAlc ==
    \/ pc \in {"tz", "loop", "customize", "wait"}
    \/ Done /\ ret.kind \in {"tzParse", "customizeErr", "waitErr", "nil"}

\* Run is past the time-zone statement without having returned from it.
PastTz ==
    \/ pc \in {"loop", "customize", "wait"}
    \/ Done /\ ret.kind \in {"customizeErr", "waitErr", "nil"}

\* Every flag that was supplied shows in the specification sp.
AllFlagsApplied(sp) ==
    /\ cmd.domain # "" =>
         IF Variant = "sysprep" THEN sp.Identity.JoinDomain = cmd.domain
         ELSE sp.Identity.Domain = cmd.domain
    /\ cmd.prefix # "" \/ cmd.host # "" =>
         HostNameField(sp.Identity).type \in {"PrefixName", "FixedName"}
    /\ ~AlcIsZero(cmd.alc) => sp.Identity.AutoLogon
    /\ cmd.tz # <<>> =>
         IF Variant = "sysprep" THEN sp.Identity.TimeZoneIdx = HexValue(cmd.tz)
         ELSE sp.Identity.TimeZone = cmd.tz
    /\ cmd.dnsserver # <<>> /\ Variant # "sysprep" =>
         Len(sp.GlobalDns) > Len(orig.GlobalDns)
    /\ \A k \in 1..Len(cmd.ip) :
         sp.NicSettingMap[k].Ip.type \in {"dhcp", "fixed"}

\* ------------------------------------------------------------------ claims

\* C1: vm.Customize is invoked at most once, and only after every
\* validation has passed and every flag-driven mutation is in the
\* specification (which is the one submitted and does not change afterwards);
\* task.Wait is called only after Customize; when Run returns an error raised
\* before the submit step, neither Customize nor Wait has been called.
C1_SubmitOnceAfterAll ==
    /\ calls.customize <= 1
    /\ calls.wait <= calls.customize
    /\ Submitted =>
         /\ pc \in {"wait", "done"}
         /\ Resolved
         /\ Len(cmd.ip) <= Slots
         /\ (~AlcIsZero(cmd.alc) => Variant = "sysprep")
         /\ (cmd.tz # <<>> /\ Variant = "sysprep" => IsHexInt32(cmd.tz))
         /\ nicWrites = Len(cmd.ip)
         /\ submitted = spec
         /\ AllFlagsApplied(submitted)
    /\ ret.kind \in PreSubmitErrors => calls.customize = 0 /\ calls.wait = 0

\* C1 witness: a run that submitted a specification carrying a domain, a
\* time zone and an adapter, and whose task completed.
C1_Witness ==
    /\ ret.kind = "nil"
    /\ calls.customize = 1 /\ calls.wait = 1
    /\ cmd.domain # "" /\ cmd.tz # <<>> /\ Len(cmd.ip) >= 1

\* C2 as stated: for every flag combination the run ends with
\* min(len(ip), slots) adapter mutations performed, and without a submission
\* when len(ip) > slots.
C2_Original ==
    Done /\ Resolved =>
        /\ nicWrites = Min(Len(cmd.ip), Slots)
        /\ (Len(cmd.ip) > Slots => ~Submitted)

\* C2 amended: the adapter mutations performed never exceed
\* min(len(ip), slots) and are the first nicWrites adapters; a run that
\* submits has performed exactly len(ip) = min(len(ip), slots) of them; when
\* len(ip) > slots Run fails with the count error before any adapter
\* mutation and before any submission.
C2_AdapterMutations ==
    Resolved =>
        /\ nicWrites <= Min(Len(cmd.ip), Slots)
        /\ \A k \in 1..Len(spec.NicSettingMap) :
              IF k <= nicWrites
              THEN spec.NicSettingMap[k].Ip.type \in {"dhcp", "fixed"}
              ELSE spec.NicSettingMap[k] = orig.NicSettingMap[k]
        /\ (Submitted =>
              nicWrites = Len(cmd.ip) /\ nicWrites = Min(Len(cmd.ip), Slots))
        /\ (Len(cmd.ip) > Slots =>
              /\ ~Submitted
              /\ nicWrites = 0
              /\ (Done => ret.kind = "tooManyIp"))

\* C2 witness: more -ip values than the stored specification has slots, and
\* Run has returned.
C2_Witness ==
    /\ Done /\ Resolved
    /\ Slots = 1 /\ Len(cmd.ip) = 2
    /\ ret.kind = "tooManyIp"

\* C3: with no NAME (and a VM), -type Windows constructs a sysprep identity
\* and -type Linux a Linux-prep identity, with exactly len(ip) adapter
\* slots, so the -ip count validation never fails; any other -type makes
\* Run return flag.ErrHelp with no specification constructed and nothing
\* submitted.
C3_FreshSpec ==
    env.vm = "vm" /\ name = <<>> /\ pc # "resolve" =>
        /\ calls.exists = 0 /\ calls.fetch = 0
        /\ (cmd.kind = "Windows" => Variant = "sysprep")
        /\ (cmd.kind = "Linux" => Variant = "linprep")
        /\ (cmd.kind \in {"Linux", "Windows"} =>
              /\ Slots = Len(cmd.ip)
              /\ Len(spec.NicSettingMap) = Len(cmd.ip)
              /\ ret.kind # "tooManyIp")
        /\ (cmd.kind \notin {"Linux", "Windows"} =>
              /\ Done /\ ret.kind = "ErrHelp"
              /\ orig = NoSpec /\ spec = NoSpec
              /\ ~Submitted)

\* C3 witness: no NAME, -type Windows, two -ip values, submitted.
C3_Witness ==
    /\ name = <<>> /\ cmd.kind = "Windows" /\ Len(cmd.ip) = 2
    /\ Submitted /\ submitted.Identity.variant = "sysprep"

\* The -auto-login count fits the int32 AutoLogonCount field.
AlcFitsInt32(a) == (a.hi = 0 /\ a.lo >= 0) \/ (a.hi = -1 /\ a.lo < 0)

\* C4 as stated: with a non-zero -auto-login, a resolved identity that is
\* not sysprep always makes Run fail with the Windows-only error, without
\* submission; with a sysprep identity AutoLogon is true and AutoLogonCount
\* is the supplied count.
C4_Original ==
    Resolved /\ ~AlcIsZero(cmd.alc) =>
        /\ (Variant # "sysprep" =>
              ~Submitted /\ (Done => ret.kind = "windowsOnly"))
        /\ (Variant = "sysprep" /\ PastAlc =>
              /\ spec.Identity.AutoLogon
              /\ AlcFitsInt32(cmd.alc)
              /\ spec.Identity.AutoLogonCount = cmd.alc.lo)

\* C4 amended: with a non-zero -auto-login, a resolved identity that is not
\* sysprep never reaches submission; against a Linux-prep identity Run fails
\* with the Windows-only error unless the -ip count validation fails first
\* (it cannot with no NAME); against a sysprep identity AutoLogon is true and
\* AutoLogonCount is the low 32 bits of the supplied count, which is the
\* supplied count when that fits a signed 32-bit integer.
C4_AutoLogin ==
    Resolved /\ ~AlcIsZero(cmd.alc) =>
        /\ (Variant # "sysprep" => ~Submitted /\ ~spec.Identity.AutoLogon)
        /\ (Variant = "linprep" /\ Done =>
              ret.kind = IF Len(cmd.ip) > Slots THEN "tooManyIp" ELSE "windowsOnly")
        /\ (name = <<>> /\ cmd.kind = "Linux" /\ Done =>
              ret = Err("windowsOnly", <<"option '-auto-login' is Windows only">>))
        /\ (Variant = "sysprep" /\ PastAlc =>
              /\ spec.Identity.AutoLogon
              /\ spec.Identity.AutoLogonCount = cmd.alc.lo)

\* C4 witness: a named Linux-prep specification, -auto-login 3, and Run has
\* returned the Windows-only error.
C4_Witness ==
    /\ Done /\ name # <<>> /\ Variant = "linprep"
    /\ cmd.alc = [hi |-> 0, lo |-> 3]
    /\ ret.kind = "windowsOnly"

RECURSIVE WellEscaped(_)
\* Inside a quoted Go string: every double quote and backslash is escaped by
\* a backslash.
WellEscaped(x) ==
    IF x = <<>> THEN TRUE
    ELSE IF Head(x) = BACKSLASH THEN Len(x) >= 2 /\ WellEscaped(Tail(Tail(x)))
    ELSE Head(x) # QUOTE /\ WellEscaped(Tail(x))

RECURSIVE Unescape(_)
\* The string a well-escaped body stands for.
Unescape(x) ==
    IF x = <<>> THEN <<>>
    ELSE IF Head(x) = BACKSLASH
         THEN <<x[2]>> \o Unescape(Tail(Tail(x)))
         ELSE <<Head(x)>> \o Unescape(Tail(x))

\* text holds n as a double-quoted, backslash-escaped Go string.
ContainsQuoted(text, n) ==
    \E a \in 1..Len(text) : \E b \in (a + 1)..Len(text) :
        /\ text[a] = QUOTE /\ text[b] = QUOTE
        /\ LET x == SubSeq(text, a + 1, b - 1)
           IN  WellEscaped(x) /\ Unescape(x) = n

\* Nothing was fetched, constructed, mutated or submitted.
NothingDone == calls.fetch = 0 /\ spec = NoSpec /\ orig = NoSpec /\ ~Submitted

RECURSIVE SplitsOf(_)
\* The comma-separated entries of every value of a list, in order.
SplitsOf(values) ==
    IF values = <<>> THEN <<>>
    ELSE Split(Head(values)) \o SplitsOf(Tail(values))

\* C6: with -dns-server supplied, in the specification Run submits: against
\* a non-Windows identity the global DNS list is the resolved list followed
\* by every comma-separated entry of every value, in order, and every
\* adapter's DNS list is as resolved; against a Windows identity the global
\* list is as resolved and adapter i's DNS list is the comma-split of the
\* i-th value exactly for i below both len(ip) and len(dns-server).
C6_DnsServers ==
    Submitted /\ cmd.dnsserver # <<>> =>
        /\ \A k \in 1..Len(cmd.dnsserver) :
              IsCommaSplit(Split(cmd.dnsserver[k]), cmd.dnsserver[k])
        /\ Len(submitted.NicSettingMap) = Slots
        /\ IF Variant # "sysprep"
           THEN /\ submitted.GlobalDns = orig.GlobalDns \o SplitsOf(cmd.dnsserver)
                /\ \A k \in 1..Slots :
                      submitted.NicSettingMap[k].DnsServerList =
                          orig.NicSettingMap[k].DnsServerList
           ELSE /\ submitted.GlobalDns = orig.GlobalDns
                /\ \A k \in 1..Slots :
                      submitted.NicSettingMap[k].DnsServerList =
                          IF k <= Len(cmd.ip) /\ k <= Len(cmd.dnsserver)
                          THEN Split(cmd.dnsserver[k])
                          ELSE orig.NicSettingMap[k].DnsServerList

\* C6 witness: a stored Windows specification with two adapters, one -ip and
\* two -dns-server values, submitted.
C6_Witness ==
    /\ Submitted /\ Variant = "sysprep" /\ Slots = 2
    /\ Len(cmd.ip) = 1 /\ Len(cmd.dnsserver) = 2

\* C7 as stated: with -tz supplied, against a Windows identity a value that
\* is no base-16 integer of 32 bits makes Run fail with the parse error
\* before submission and a valid one is stored as that index; against a
\* Linux identity the value is stored verbatim and produces no error.
C7_Original ==
    Resolved /\ cmd.tz # <<>> =>
        /\ (Variant = "sysprep" /\ ~IsHexInt32(cmd.tz) =>
              ~Submitted /\ (Done => ret.kind = "tzParse"))
        /\ (Variant = "sysprep" /\ IsHexInt32(cmd.tz) =>
              /\ ret.kind # "tzParse"
              /\ (PastTz => spec.Identity.TimeZoneIdx = HexValue(cmd.tz)))
        /\ (Variant = "linprep" =>
              /\ ret.kind # "tzParse"
              /\ (PastTz => spec.Identity.TimeZone = cmd.tz))

\* C7 amended: against a Windows identity an invalid value makes Run fail
\* before submission, with the parse error (which quotes the value) unless
\* the -ip count validation fails first; the rest as stated.
C7_TimeZone ==
    Resolved /\ cmd.tz # <<>> =>
        /\ (Variant = "sysprep" /\ ~IsHexInt32(cmd.tz) =>
              /\ ~Submitted
              /\ (Done =>
                    IF Len(cmd.ip) > Slots THEN ret.kind = "tooManyIp"
                    ELSE ret.kind = "tzParse" /\ ContainsQuoted(ret.text, cmd.tz)))
        /\ (Variant = "sysprep" /\ IsHexInt32(cmd.tz) =>
              /\ ret.kind # "tzParse"
              /\ (PastTz => spec.Identity.TimeZoneIdx = HexValue(cmd.tz)))
        /\ (Variant = "linprep" =>
              /\ ret.kind # "tzParse"
              /\ spec.Identity.TimeZoneIdx = 0
              /\ (PastTz => spec.Identity.TimeZone = cmd.tz))

\* C7 witness: -tz 80000000 (2^31) against a Windows identity, and Run has
\* returned the parse error.
C7_Witness ==
    /\ Done /\ Variant = "sysprep"
    /\ cmd.tz = <<"8", "0", "0", "0", "0", "0", "0", "0">>
    /\ ret.kind = "tzParse"

\* C8: after a successful run, adapter i < len(ip) has the DHCP generator
\* with no address when ip[i] is "dhcp" and otherwise the fixed-address
\* generator holding ip[i]; its netmask, MAC address and gateway list are
\* netmask[i], mac[i] and the comma-split of gateway[i] when that list has an
\* entry at i, and as resolved otherwise; adapters at i >= len(ip) are as
\* resolved.
C8_Adapters ==
    ret.kind = "nil" =>
        /\ Len(submitted.NicSettingMap) = Slots
        /\ \A k \in 1..Slots :
              LET nic == submitted.NicSettingMap[k]
                  old == orig.NicSettingMap[k]
              IN  IF k > Len(cmd.ip) THEN nic = old
                  ELSE /\ nic.Ip = IF cmd.ip[k] = "dhcp"
                                   THEN [type |-> "dhcp", IpAddress |-> ""]
                                   ELSE [type |-> "fixed", IpAddress |-> cmd.ip[k]]
                       /\ nic.SubnetMask = IF k <= Len(cmd.netmask)
                                           THEN cmd.netmask[k] ELSE old.SubnetMask
                       /\ nic.MacAddress = IF k <= Len(cmd.mac)
                                           THEN cmd.mac[k] ELSE old.MacAddress
                       /\ IF k <= Len(cmd.gateway)
                          THEN IsCommaSplit(nic.Gateway, cmd.gateway[k])
                          ELSE nic.Gateway = old.Gateway

\* C8 witness: a successful run against a stored specification with -ip dhcp
\* and a fixed address, one -netmask, two -gateway and no -mac.
C8_Witness ==
    /\ ret.kind = "nil" /\ name # <<>>
    /\ cmd.ip = <<"dhcp", "10.0.0.5">>
    /\ Len(cmd.netmask) = 1 /\ Len(cmd.gateway) = 2 /\ Len(cmd.mac) = 0

\* C9 as stated: whatever the identity of the resolved specification, Run
\* never writes a field of an absent Linux-prep identity: every execution
\* ends by returning or by submitting, never by crashing.
C9_NeverCrashes == ret.kind # "panic"

\* C10: in the submitted specification the identity's host-name field is the
\* fixed name of -name when -name is supplied (also when -prefix is), the
\* prefix generator of -prefix when only -prefix is, and as resolved when
\* neither is.
C10_HostName ==
    Submitted /\ Variant \in {"sysprep", "linprep"} =>
        /\ submitted.Identity.variant = Variant
        /\ HostNameField(submitted.Identity) =
              IF cmd.host # "" THEN [type |-> "FixedName", value |-> cmd.host]
              ELSE IF cmd.prefix # "" THEN [type |-> "PrefixName", value |-> cmd.prefix]
              ELSE HostNameField(orig.Identity)

\* C10 witness: both -prefix and -name supplied, and the specification
\* submitted.
C10_Witness ==
    /\ Submitted /\ cmd.prefix # "" /\ cmd.host # ""
    /\ Variant = "linprep"

====
